---- MODULE Spec2Model ----
(***************************************************************************)
(* Model of the price comparison service (src/src/price_comparison.rs):    *)
(* PriceComparisonService::compare_prices, the /compare handler and the    *)
(* /bulk-compare handler.                                                  *)
(*                                                                         *)
(* Prices are f64 in the source.  The model draws them from the naturals   *)
(* 0..MaxPrice, on which f64 subtraction and comparison are exact.  The    *)
(* only inexact operation, the division of discount_percentage, is kept    *)
(* as a fraction [num, den]; den = 0 encodes the IEEE results of a         *)
(* division by zero (num > 0: +inf, num < 0: -inf, num = 0: NaN).          *)
(* NaN prices are outside the model.                                       *)
(***************************************************************************)
EXTENDS Integers, Sequences, FiniteSets, TLC

VARIABLES
    products,        \* the requests handed to compare_prices, in payload order
    pc,              \* pc[i]: position of the i-th compare_prices future
    search_results,  \* search_results[i]: what the search collaborator returned
    out,             \* out[i]: the Result the i-th compare_prices returned
    next_i,          \* bulk_compare: index of the future the for loop awaits
    results,         \* bulk_compare: the local Vec of responses
    http,            \* the handler's return value (None while it runs)
    search_calls,    \* product names passed to search_product_across_platforms
    bloom_bits,      \* PriceComparisonService.bloom_filter: the set bits
    trie             \* PriceComparisonService.trie: the complete names

vars == <<products, pc, search_results, out, next_i, results, http,
          search_calls, bloom_bits, trie>>

----------------------------------------------------------------------------
(* Bounds *)

MaxPrice == 2
MaxListings == 2
MaxBatch == 2
BloomBits == 7

----------------------------------------------------------------------------
(* Values *)

\* Result<T, E>
Ok(v) == [ok |-> TRUE, val |-> v]
Err(e) == [ok |-> FALSE, val |-> e]

\* Option<T>: None is the empty tuple, Some(v) the tuple of v.
None == <<>>
Some(v) == <<v>>
Unwrap(o) == o[1]
INTERNAL_SERVER_ERROR == 500
OK == 200

ProductNames == {"", "laptop", "phone"}
CurrentPlatforms == {"BestBuy"}
SearchPlatforms == {"Amazon", "Flipkart"}
Prices == 0..MaxPrice
Ratings == {3, 5}

\* PriceComparisonRequest; product_category and user_id are never read.
Requests ==
    [product_name : ProductNames, current_price : Prices,
     current_platform : CurrentPlatforms]

\* One record returned by the search collaborator.
Listings ==
    [platform : SearchPlatforms, price : Prices, url : {"u"},
     in_stock : {TRUE}, rating : {Some(r) : r \in Ratings} \cup {None},
     estimated_delivery : {None}]

ListingSeqs == UNION {[1..n -> Listings] : n \in 0..MaxListings}

\* The listings the collaborator returns to the items of a batch.
BulkListings == {l \in Listings : l.platform = "Amazon" /\ l.rating = None}
BulkListingSeqs == UNION {[1..n -> BulkListings] : n \in 0..1}


----------------------------------------------------------------------------
(* f64 arithmetic of discount_percentage *)

F(n, d) == [num |-> n, den |-> d]

FDiv(a, b) == IF b < 0 THEN F(0 - a, 0 - b) ELSE F(a, b)

FMul(x, k) == F(x.num * k, x.den)

FIsNaN(x) == x.num = 0 /\ x.den = 0

\* f64::max(self, 0.0): the other operand when self is NaN.
FMax0NoClamp(x) == IF FIsNaN(x) THEN F(0, 1) ELSE x

FMax0(x) == IF FIsNaN(x) \/ x.num < 0 THEN F(0, 1) ELSE x

DiscountPercentage(current_price, price) ==
    FMax0(FMul(FDiv(current_price - price, current_price), 100))

----------------------------------------------------------------------------
(* compare_prices, the computation after the search returned *)

DedupKey(req) == req.product_name \o "-" \o req.current_platform

ToPlatformPrice(req, result) ==
    [platform |-> result.platform,
     price |-> result.price,
     url |-> result.url,
     discount_percentage |-> DiscountPercentage(req.current_price, result.price),
     availability |-> result.in_stock,
     rating |-> result.rating,
     delivery_time |-> result.estimated_delivery]

Alternatives(req, rs) == [k \in 1..Len(rs) |-> ToPlatformPrice(req, rs[k])]

\* a.price.partial_cmp(&b.price) == Less
PriceLessOrEqual(a, b) == a.price <= b.price

PriceLess(a, b) == a.price < b.price

\* sort_by is a stable sort: x goes behind the elements that do not compare
\* greater than it.
RECURSIVE InsertSorted(_, _)
InsertSorted(s, x) ==
    IF s = <<>> THEN <<x>>
    ELSE IF PriceLess(x, Head(s)) THEN <<x>> \o s
    ELSE <<Head(s)>> \o InsertSorted(Tail(s), x)

RECURSIVE SortByPrice(_, _)
SortByPrice(acc, rest) ==
    IF rest = <<>> THEN acc
    ELSE SortByPrice(InsertSorted(acc, Head(rest)), Tail(rest))

CurrentPlatformPrice(req) ==
    [platform |-> req.current_platform,
     price |-> req.current_price,
     url |-> "",
     discount_percentage |-> F(0, 1),
     availability |-> TRUE,
     rating |-> None,
     delivery_time |-> None]

BestDeal(req, alternatives) ==
    LET sorted_results == SortByPrice(<<>>, alternatives)
    IN  IF sorted_results # <<>> THEN Head(sorted_results)
        ELSE CurrentPlatformPrice(req)

UnwrapOr(o, d) == IF o = None THEN d ELSE Unwrap(o)

Recommendations(potential_savings, best_deal) ==
    (IF potential_savings > 0
       THEN <<[msg |-> "save", amount |-> potential_savings,
               platform |-> best_deal.platform]>>
       ELSE <<>>)
    \o
    (IF UnwrapOr(best_deal.rating, 0) > 4
       THEN <<[msg |-> "rating", amount |-> Unwrap(best_deal.rating),
               platform |-> best_deal.platform]>>
       ELSE <<>>)

Response(req, rs) ==
    LET alternatives == Alternatives(req, rs)
        best_deal == BestDeal(req, alternatives)
        potential_savings == req.current_price - best_deal.price
    IN  [current_platform |-> CurrentPlatformPrice(req),
         alternatives |-> alternatives,
         best_deal |-> best_deal,
         potential_savings |-> potential_savings,
         recommendations |-> Recommendations(potential_savings, best_deal)]


\* The Result of compare_prices for what the collaborator returned.
ComparePricesResult(req, r) ==
    IF r.ok THEN Ok(Response(req, r.val)) ELSE Err(INTERNAL_SERVER_ERROR)

----------------------------------------------------------------------------
(* The Deduplication Filter and the Product Index *)

BloomPositions(key) == {Len(key) % BloomBits, (2 * Len(key) + 1) % BloomBits}

BloomMightContain(key) == BloomPositions(key) \subseteq bloom_bits

TrieContains(name) == name \in trie

----------------------------------------------------------------------------
(* State *)

N == Len(products)
Items == 1..N

\* PriceComparisonService::new, and the handler's locals before its first poll.
InitService(payloads) ==
    /\ products \in payloads
    /\ pc = [i \in 1..Len(products) |-> "created"]
    /\ search_results = [i \in 1..Len(products) |-> None]
    /\ out = [i \in 1..Len(products) |-> None]
    /\ next_i = 1
    /\ results = <<>>
    /\ http = None
    /\ search_calls = <<>>
    /\ bloom_bits = {}
    /\ trie = {}

----------------------------------------------------------------------------
(* Steps of one compare_prices future *)

\* First poll: builds _product_hash, calls the collaborator and suspends.
ComparePricesCall(i) ==
    /\ pc[i] = "created"
    /\ pc' = [pc EXCEPT ![i] = "searching"]
    /\ search_calls' = Append(search_calls, products[i].product_name)
    /\ UNCHANGED <<products, search_results, out, bloom_bits, trie>>

\* The collaborator answers r; the future runs to its end.
ComparePricesResume(i, r) ==
    /\ pc[i] = "searching"
    /\ pc' = [pc EXCEPT ![i] = "ready"]
    /\ search_results' = [search_results EXCEPT ![i] = Some(r)]
    /\ out' = [out EXCEPT ![i] = Some(ComparePricesResult(products[i], r))]
    /\ UNCHANGED <<products, search_calls, bloom_bits, trie>>

----------------------------------------------------------------------------
(* POST /compare: one request, one compare_prices future *)

HandlerCall ==
    /\ http = None
    /\ ComparePricesCall(1)
    /\ UNCHANGED <<next_i, results, http>>

HandlerSearchOk ==
    /\ pc[1] = "searching"
    /\ \E rs \in ListingSeqs : ComparePricesResume(1, Ok(rs))
    /\ UNCHANGED <<next_i, results, http>>

HandlerSearchErr ==
    /\ ComparePricesResume(1, Err("provider"))
    /\ UNCHANGED <<next_i, results, http>>

\* let response = service.compare_prices(payload).await?; Ok(Json(response))
HandlerReturn ==
    /\ http = None
    /\ pc[1] = "ready"
    /\ http' = IF Unwrap(out[1]).ok
                 THEN Some([status |-> OK, body |-> Some(Unwrap(out[1]).val)])
                 ELSE Some([status |-> Unwrap(out[1]).val, body |-> None])
    /\ UNCHANGED <<products, pc, search_results, out, next_i, results,
                   search_calls, bloom_bits, trie>>

InitCompare == InitService({<<r>> : r \in Requests})

NextCompare ==
    \/ HandlerCall
    \/ HandlerSearchOk
    \/ HandlerSearchErr
    \/ HandlerReturn

SpecCompare == InitCompare /\ [][NextCompare]_vars

----------------------------------------------------------------------------
(* POST /bulk-compare *)

\* The futures are built unpolled; the for loop polls the one it awaits.
BulkPoll(i) ==
    /\ http = None
    /\ next_i = i
    /\ ComparePricesCall(i)
    /\ UNCHANGED <<next_i, results, http>>

BulkSearchOk(i) ==
    /\ pc[i] = "searching"
    /\ \E rs \in BulkListingSeqs : ComparePricesResume(i, Ok(rs))
    /\ UNCHANGED <<next_i, results, http>>

BulkSearchErr(i) ==
    /\ ComparePricesResume(i, Err("provider"))
    /\ UNCHANGED <<next_i, results, http>>

\* An Err arm that returns the error to the caller instead of continuing.
BulkCollectPropagate(i) ==
    /\ http = None
    /\ next_i = i
    /\ pc[i] = "ready"
    /\ IF Unwrap(out[i]).ok
         THEN /\ results' = Append(results, Unwrap(out[i]).val)
              /\ next_i' = i + 1
              /\ UNCHANGED http
         ELSE /\ http' = Some([status |-> Unwrap(out[i]).val, body |-> None])
              /\ UNCHANGED <<results, next_i>>
    /\ UNCHANGED <<products, pc, search_results, out, search_calls,
                   bloom_bits, trie>>

\* match future.await { Ok(result) => results.push(result), Err(_) => continue }
BulkCollect(i) ==
    /\ http = None
    /\ next_i = i
    /\ pc[i] = "ready"
    /\ results' = IF Unwrap(out[i]).ok THEN Append(results, Unwrap(out[i]).val)
                             ELSE results
    /\ next_i' = i + 1
    /\ UNCHANGED <<products, pc, search_results, out, http, search_calls,
                   bloom_bits, trie>>

\* Ok(Json(results))
BulkReturn ==
    /\ http = None
    /\ next_i = N + 1
    /\ http' = Some([status |-> OK, body |-> Some(results)])
    /\ UNCHANGED <<products, pc, search_results, out, next_i, results,
                   search_calls, bloom_bits, trie>>

Batches == UNION {[1..n -> Requests] : n \in 0..MaxBatch}

Init == InitService(Batches)

Next ==
    \/ \E i \in Items : BulkPoll(i)
    \/ \E i \in Items : BulkSearchOk(i)
    \/ \E i \in Items : BulkSearchErr(i)
    \/ \E i \in Items : BulkCollect(i)
    \/ BulkReturn

Spec == Init /\ [][Next]_vars

----------------------------------------------------------------------------
(* Vocabulary of the properties *)

Returned(i) == pc[i] = "ready"
Succeeded(i) == Returned(i) /\ Unwrap(out[i]).ok
ResponseOf(i) == Unwrap(out[i]).val
FoundBy(i) == Unwrap(search_results[i]).val
ValidRequest(req) == req.product_name # "" /\ req.current_price > 0

MinPriceOf(alts) ==
    CHOOSE m \in {alts[k].price : k \in 1..Len(alts)} :
        \A k \in 1..Len(alts) : m <= alts[k].price
LowestPriced(alts) == {k \in 1..Len(alts) : alts[k].price = MinPriceOf(alts)}
FirstOf(S) == CHOOSE k \in S : \A j \in S : k <= j
RatingRank(p) == UnwrapOr(p.rating, -1)

\* The responses of the first n futures that returned Ok, in payload order.
RECURSIVE OkResponses(_)
OkResponses(n) ==
    IF n = 0 THEN <<>>
    ELSE IF Unwrap(out[n]).ok THEN Append(OkResponses(n - 1), Unwrap(out[n]).val)
    ELSE OkResponses(n - 1)

----------------------------------------------------------------------------
(* Properties *)

\* C1: for a valid request (current_price > 0), the response's best_deal.price
\* is at most the price of every alternative and at most the price of
\* current_platform.
C1_BestDealIsLowest ==
    \A i \in Items :
        (Succeeded(i) /\ ValidRequest(products[i])) =>
            LET r == ResponseOf(i)
            IN  /\ \A k \in 1..Len(r.alternatives) :
                       r.best_deal.price <= r.alternatives[k].price
                /\ r.best_deal.price <= r.current_platform.price

\* C2: potential_savings is never negative in a response, also when every
\* alternative found costs more than the request's current price.
C2_SavingsNonNegative ==
    \A i \in Items :
        (Succeeded(i) /\ ValidRequest(products[i])) =>
            ResponseOf(i).potential_savings >= 0

\* C3: a request with an empty product_name or a current_price <= 0 is
\* rejected: the search collaborator is never called for it and it returns a
\* failure, not a response.
C3_InvalidRequestRejected ==
    \A i \in Items :
        ~ValidRequest(products[i]) =>
            /\ pc[i] # "searching"
            /\ Returned(i) => (~Unwrap(out[i]).ok /\ search_results[i] = None)

\* C4: when the collaborator succeeds for every item of a batch of N requests
\* of which M are invalid, bulk_compare returns exactly N - M results.
C4_BulkDropsInvalid ==
    (/\ http # None
     /\ \A i \in Items : search_results[i] = None \/ Unwrap(search_results[i]).ok)
        => Len(Unwrap(Unwrap(http).body))
             = N - Cardinality({i \in Items : ~ValidRequest(products[i])})

\* C5: bulk_compare always returns success, and what it returns is exactly
\* the responses of the items whose compare_prices succeeded, one each and
\* none for a failed item (the empty sequence when every item failed).
C5_BulkNeverFails ==
    http # None =>
        /\ Unwrap(http).status = OK
        /\ \A i \in Items : Returned(i)
        /\ Unwrap(http).body = Some(OkResponses(N))
        /\ Len(OkResponses(N)) = Cardinality({i \in Items : Succeeded(i)})

C5_Witness ==
    /\ http # None
    /\ \E i \in Items : Returned(i) /\ ~Unwrap(out[i]).ok
    /\ \E i \in Items : Succeeded(i)
    /\ Len(Unwrap(Unwrap(http).body)) = Cardinality({i \in Items : Succeeded(i)})

\* C6: of two identical valid requests processed back to back, the first has
\* recorded its dedup key by the time the second is processed, so the filter
\* reports the second one's key as possibly present; the second one still
\* calls the search collaborator.
C6_DedupKeyRecorded ==
    \A i \in Items :
        (/\ i + 1 \in Items
         /\ products[i] = products[i + 1]
         /\ ValidRequest(products[i])
         /\ Returned(i)
         /\ pc[i + 1] # "created")
            => /\ BloomMightContain(DedupKey(products[i + 1]))
               /\ Len(search_calls) >= i + 1

\* C7: once compare_prices has returned a response for a valid request, the
\* Product Index contains the request's product name.
C7_ProductNameIndexed ==
    \A i \in Items :
        (Succeeded(i) /\ ValidRequest(products[i])) =>
            TrieContains(products[i].product_name)

C9_DiscountClamped ==
    \A i \in Items :
        Succeeded(i) =>
            LET r == ResponseOf(i)
                cp == products[i].current_price
            IN  /\ Len(r.alternatives) = Len(FoundBy(i))
                /\ \A k \in 1..Len(r.alternatives) :
                       LET d == r.alternatives[k].discount_percentage
                           p == FoundBy(i)[k].price
                       IN  /\ r.alternatives[k].price = p
                           /\ d.den > 0
                           /\ d.num >= 0
                           /\ cp > 0 =>
                                 IF p < cp
                                   THEN d.num * cp = d.den * (cp - p) * 100
                                   ELSE d.num = 0

C9_Witness ==
    \E i \in Items :
        /\ Succeeded(i)
        /\ products[i].current_price > 0
        /\ \E k, j \in 1..Len(ResponseOf(i).alternatives) :
               /\ FoundBy(i)[k].price > products[i].current_price
               /\ ResponseOf(i).alternatives[k].discount_percentage.num = 0
               /\ FoundBy(i)[j].price < products[i].current_price
               /\ ResponseOf(i).alternatives[j].discount_percentage.num > 0

\* C10: the compare_prices invocations of a batch have no ordering
\* dependency: while an earlier item's invocation is waiting for its search,
\* a later item's invocation can start.
C10_NoOrderingDependency ==
    \A i, j \in Items :
        (i < j /\ pc[i] = "searching" /\ pc[j] = "created")
            => ENABLED BulkPoll(j)

====
